---- MODULE Spec2Model ----
(***************************************************************************)
(* A model of the stateful parts of the G Automotive site:                *)
(*   - CardGrid (src/src/components/card-grid.tsx): the highlighted card,  *)
(*     its default (the middle card, set by an effect keyed on the cards   *)
(*     prop) and the card-button click handler;                            *)
(*   - ToastProvider / Toast (src/docs/10-ERROR-HANDLING.md): the single   *)
(*     toast, its 3000 ms auto-dismiss timer and its close button;         *)
(*   - the callers of showToast: the HomePage that loads its cards with    *)
(*     getCards() (src/docs/10-ERROR-HANDLING.md), the contact form        *)
(*     (src/src/app/contact/page.tsx) and any component using useToast();  *)
(*   - ThemeToggle (src/src/components/theme-toggle.tsx).                  *)
(* React commits a state update together with the handler that made it;   *)
(* a passive effect (useEffect) runs later, as a step of its own.          *)
(***************************************************************************)
EXTENDS Integers, Sequences, FiniteSets

VARIABLES
    cards,          \* CardGrid: the cards prop, as the sequence of the cards' ids
    activeCardId,   \* CardGrid: useState<number | null>(null)
    effectDue,      \* CardGrid: the effect keyed on [cards] has not run yet for cards
    lastClicked,    \* history: the id last passed to handleButtonClick since the effect last ran
    reclicked,      \* history: the last click repeated the click before it
    overwrote,      \* history: the last run of the effect replaced a selection made by a click
    toast,          \* ToastProvider: useState<{message, type} | null>(null)
    timer,          \* Toast: ms left on the pending setTimeout, or NoTimer
    toastEffectDue, \* Toast: the effect keyed on [duration, onClose] (or its cleanup) is pending
    lastShown,      \* history: the toast of the last showToast call
    lastArgs,       \* history: the arguments of the last showToast call
    replaced,       \* history: the toast that was current at the last showToast call
    sinceShown,     \* history: ms since the last showToast call (saturating), or NoCall
    closedSince,    \* history: the close button was clicked since the last showToast call
    closedBefore,   \* history: the close button was clicked between the last two showToast calls
    fetch,          \* HomePage: where fetchCards stands (its effect, the getCards() promise)
    pageCards,      \* HomePage: useState<Card[]>([]), as the sequence of the cards' ids
    loading,        \* HomePage: useState(true)
    pageToasts,     \* history: the number of showToast calls made by HomePage
    fetchError,     \* history: the error getCards() rejected with
    checkedFor,     \* HomePage: the toast of the last render whose effects React has checked
    fields,         \* ContactPage: what the form's fields hold
    processing,     \* ContactPage: the onSubmit calls waiting in their 500 ms delay
    submissions,    \* history: the number of submit events
    formToasts,     \* history: the number of showToast calls made by ContactPage
    resets,         \* history: the number of reset() calls
    isDark,         \* ThemeToggle: useState(false)
    darkClass,      \* document.documentElement carries the class 'dark'
    stored,         \* localStorage.getItem('theme')
    systemDark,     \* window.matchMedia('(prefers-color-scheme: dark)').matches
    themeEffectDue, \* ThemeToggle: the mount effect has not run yet
    before,         \* history: the themes before each click since the page was loaded
    toggledTo,      \* history: the theme the last click chose, on whichever page load
    consumer,       \* a component that calls useToast(): not rendered, rendered, or failed
    thrown          \* the message of the error the consumer's render threw

gridVars == <<cards, activeCardId, effectDue, lastClicked, reclicked, overwrote>>
toastVars == <<toast, timer, toastEffectDue, lastShown, lastArgs, replaced, sinceShown,
               closedSince, closedBefore>>
pageVars == <<fetch, pageCards, loading, pageToasts, fetchError, checkedFor>>
formVars == <<fields, processing, submissions, formToasts, resets>>
themeVars == <<isDark, darkClass, stored, systemDark, themeEffectDue, before, toggledTo>>
hookVars == <<consumer, thrown>>

vars == <<gridVars, toastVars, pageVars, formVars, themeVars, hookVars>>

----------------------------------------------------------------------------
(* Bounds *)

MaxCards == 4       \* card lists have 0..MaxCards cards, with ids in 1..MaxCards
MaxSubmits == 3     \* the contact form is submitted at most MaxSubmits times
MaxClicks == 6      \* the theme button is clicked at most MaxClicks times per page load
TickMs == 1000      \* the clock advances by at most TickMs at a time

----------------------------------------------------------------------------
(* CardGrid *)

NoCard == 0         \* activeCardId = null

CardIds == 1..MaxCards

\* Card lists: the ids are pairwise distinct (CardRecord.id is the React key).
CardLists ==
    UNION { { s \in [1..n -> CardIds] : \A i, j \in 1..n : i # j => s[i] # s[j] }
            : n \in 0..MaxCards }

\* Math.floor((cards.length - 1) / 2), a zero-based index
middleIndexCeil(n) == n \div 2
middleIndexLast(n) == n - 1
middleIndex(n) == (n - 1) \div 2

\* cards[middleIndex].id (sequences are 1-based)
middleCardId(cs) == cs[middleIndex(Len(cs)) + 1]

\* isHighlighted={card.id === activeCardId}
isHighlighted(cardId) == cardId = activeCardId

\* The (1-based) positions of the cards rendered with the highlight.
Highlighted == { i \in 1..Len(cards) : isHighlighted(cards[i]) }

\* The ids, of any card, that the grid would render highlighted.
SelectedIds == { x \in CardIds : isHighlighted(x) }

\* The effect's body: if (cards.length > 0) setActiveCardId(cards[middleIndex].id)
effectClearOnEmpty(cs, cur) == IF Len(cs) > 0 THEN middleCardId(cs) ELSE NoCard
effectResult(cs, cur) == IF Len(cs) > 0 THEN middleCardId(cs) ELSE cur

\* useEffect(() => {...}, [cards]): runs once after the mount and once after
\* every render with another cards object.
initialize ==
    /\ effectDue
    /\ activeCardId' = effectResult(cards, activeCardId)
    /\ effectDue' = FALSE
    /\ lastClicked' = NoCard
    /\ reclicked' = FALSE
    /\ overwrote' = (lastClicked # NoCard /\ Len(cards) > 0)
    /\ UNCHANGED <<cards, toastVars, pageVars, formVars, themeVars, hookVars>>

\* handleButtonClick's state update: setActiveCardId(cardId)
clickToggles(cardId, cur) == IF cur = cardId THEN NoCard ELSE cardId
clickIgnored(cardId, cur) == IF cur = NoCard THEN cardId ELSE cur
clickValidated(cardId, cur) ==
    IF \E i \in 1..Len(cards) : cards[i] = cardId THEN cardId ELSE cur
clickResult(cardId, cur) == cardId

\* onButtonClick={() => handleButtonClick(card.id)}: the button of a rendered card.
handleButtonClick(cardId) ==
    /\ \E i \in 1..Len(cards) : cards[i] = cardId
    /\ activeCardId' = clickResult(cardId, activeCardId)
    /\ lastClicked' = cardId
    /\ reclicked' = (lastClicked = cardId)
    /\ UNCHANGED <<cards, effectDue, overwrote, toastVars, pageVars, formVars, themeVars, hookVars>>

\* handleButtonClick's arguments when it is taken as a function of any
\* number: ids of cards and numbers that are the id of no card (0 stands for
\* null in activeCardId and is left out)
AnyIds == (-1..(MaxCards + 1)) \ {NoCard}

\* select(cardId): handleButtonClick called with any number, the id of a
\* card of the list or not
select(cardId) ==
    /\ activeCardId' = clickResult(cardId, activeCardId)
    /\ lastClicked' = cardId
    /\ reclicked' = (lastClicked = cardId)
    /\ UNCHANGED <<cards, effectDue, overwrote, toastVars, pageVars, formVars, themeVars, hookVars>>

\* The parent renders <CardGrid cards={cs} /> with another list object (equal
\* or not to the last one). React runs a pending effect before it renders again.
deliver(cs) ==
    /\ ~effectDue
    /\ cards' = cs
    /\ effectDue' = TRUE
    /\ UNCHANGED <<activeCardId, lastClicked, reclicked, overwrote, toastVars, pageVars, formVars, themeVars, hookVars>>

----------------------------------------------------------------------------
(* ToastProvider and Toast *)

Duration == 3000    \* Toast's duration = 3000

NoTimer == -1       \* no setTimeout is pending
NoCall == -1        \* showToast has not been called

ToastTypes == {"success", "error", "warning", "info"}

\* showToast's type argument: a ToastType, or left out by the caller
Omitted == "undefined"
TypeArgs == ToastTypes \cup {Omitted}
Messages == {"A", "B"}

NoToast == [message |-> "", type |-> "null"]    \* toast = null

\* current(): what the provider renders
current == toast

\* What the pending effect work of the last commit does to the timer: the
\* cleanup is clearTimeout(timer); the effect, run while the Toast is mounted,
\* is setTimeout(onClose, duration).
effectNeverArms(t, tm) == NoTimer
effectNoCleanup(t, tm) == IF t # NoToast THEN Duration ELSE tm
effectTimer(t, tm) == IF t # NoToast THEN Duration ELSE NoTimer

\* The timer once React has run the effect work that is pending, if any.
flushedTimer(tm) == IF toastEffectDue THEN effectTimer(toast, tm) ELSE tm

\* setToast(next), rendered and committed. setToast(null) on null is no
\* update. Any other update renders the provider: pending effect work runs
\* first, and the commit leaves effect work of its own (onClose is a new
\* function in every render, so the timer effect is due again; an unmount
\* leaves its cleanup).
commit(next, tm) ==
    IF next = NoToast /\ toast = NoToast
    THEN /\ UNCHANGED <<toast, toastEffectDue>>
         /\ timer' = tm
    ELSE /\ toast' = next
         /\ timer' = flushedTimer(tm)
         /\ toastEffectDue' = TRUE

\* showToast's state update, with its default parameter (type = 'info'):
\* setToast({ message, type })
showKeepsActive(message, type) ==
    IF toast # NoToast THEN toast
    ELSE [message |-> message, type |-> IF type = Omitted THEN "info" ELSE type]
showKeepsType(message, type) ==
    [message |-> message,
     type |-> IF type = Omitted THEN (IF toast # NoToast THEN toast.type ELSE "info") ELSE type]
showResult(message, type) ==
    [message |-> message, type |-> IF type = Omitted THEN "info" ELSE type]

\* A call of showToast(message, type = 'info'), by any caller
showToastCall(message, type) ==
    /\ commit(showResult(message, type), timer)
    /\ lastShown' = showResult(message, type)
    /\ lastArgs' = [message |-> message, type |-> type]
    /\ replaced' = toast
    /\ sinceShown' = 0
    /\ closedSince' = FALSE
    /\ closedBefore' = closedSince

\* A component under the provider calls showToast and does nothing else.
showToastRedelivers(message, type) ==
    /\ showToastCall(message, type)
    /\ effectDue' = TRUE
    /\ UNCHANGED <<cards, activeCardId, lastClicked, reclicked, overwrote,
                   pageVars, formVars, themeVars, hookVars>>
showToast(message, type) ==
    /\ showToastCall(message, type)
    /\ UNCHANGED <<gridVars, pageVars, formVars, themeVars, hookVars>>

\* React runs the pending effect work of the Toast.
flushToastEffect ==
    /\ toastEffectDue
    /\ timer' = effectTimer(toast, timer)
    /\ toastEffectDue' = FALSE
    /\ UNCHANGED <<toast, lastShown, lastArgs, replaced, sinceShown, closedSince, closedBefore, gridVars, pageVars, formVars, themeVars, hookVars>>

\* The setTimeout callback: onClose(), that is setToast(null).
timerFires ==
    /\ timer = 0
    /\ commit(NoToast, NoTimer)
    /\ UNCHANGED <<lastShown, lastArgs, replaced, sinceShown, closedSince, closedBefore, gridVars, pageVars, formVars, themeVars, hookVars>>

\* The close button: onClick={onClose}. A click is a discrete event: React
\* runs the effect work of its commit (the cleanup) before it returns.
dismissKeepsToast ==
    /\ toast # NoToast
    /\ timer' = effectTimer(NoToast, timer)
    /\ toastEffectDue' = FALSE
    /\ closedSince' = TRUE
    /\ UNCHANGED <<toast, lastShown, lastArgs, replaced, sinceShown, closedBefore, gridVars, pageVars, formVars, themeVars, hookVars>>
dismissKeepsTimer ==
    /\ toast # NoToast
    /\ toast' = NoToast
    /\ closedSince' = TRUE
    /\ UNCHANGED <<timer, toastEffectDue, lastShown, lastArgs, replaced, sinceShown, closedBefore,
                   gridVars, pageVars, formVars, themeVars, hookVars>>
dismiss ==
    /\ toast # NoToast
    /\ toast' = NoToast
    /\ timer' = effectTimer(NoToast, timer)
    /\ toastEffectDue' = FALSE
    /\ closedSince' = TRUE
    /\ UNCHANGED <<lastShown, lastArgs, replaced, sinceShown, closedBefore, gridVars, pageVars, formVars, themeVars, hookVars>>

\* Time passes: no effect work is pending and no timer is overdue.
Min(a, b) == IF a < b THEN a ELSE b
tick ==
    /\ ~toastEffectDue
    /\ timer # 0
    /\ LET d == IF timer = NoTimer THEN TickMs ELSE Min(TickMs, timer)
       IN /\ timer' = IF timer = NoTimer THEN NoTimer ELSE timer - d
          /\ sinceShown' = IF sinceShown = NoCall THEN NoCall
                           ELSE Min(sinceShown + d, Duration + 1)
    /\ UNCHANGED <<toast, toastEffectDue, lastShown, lastArgs, replaced, closedSince, closedBefore, gridVars, pageVars, formVars, themeVars, hookVars>>

----------------------------------------------------------------------------
(* HomePage, the page that loads its cards with getCards() *)

NoFetch == "unmounted"      \* no HomePage of this kind is mounted
FetchDue == "due"           \* mounted; the effect that calls fetchCards() is pending

FailedToLoad == "Failed to load content. Please refresh the page to try again."

\* What getCards() may reject with
Errors == {"Network error", "Request timeout"}
NoError == "none"

\* if (loading) return <Loading />
loadingShown == fetch # NoFetch /\ loading

\* cards.length > 0 ? <CardGrid cards={cards} /> : 'Services Currently Unavailable'
gridMounted == fetch # NoFetch /\ ~loading /\ Len(pageCards) > 0
fallbackShown == fetch # NoFetch /\ ~loading /\ Len(pageCards) = 0

\* useEffect(() => { fetchCards() }, [showToast]): setLoading(true), then the
\* call of getCards(), whose promise is awaited.
startFetch ==
    /\ fetch = FetchDue
    /\ fetch' = "pending"
    /\ loading' = TRUE
    /\ UNCHANGED <<pageCards, pageToasts, fetchError, checkedFor, gridVars, toastVars, formVars, themeVars, hookVars>>

\* The try block after the await, and finally: setCards(cardData);
\* setLoading(false). A non-empty list mounts the CardGrid.
fetchResolvesWarnsEmpty(cs) ==
    /\ fetch = "pending"
    /\ fetch' = "resolved"
    /\ pageCards' = cs
    /\ loading' = FALSE
    /\ IF Len(cs) > 0
       THEN /\ cards' = cs
            /\ activeCardId' = NoCard
            /\ effectDue' = TRUE
            /\ lastClicked' = NoCard
            /\ reclicked' = FALSE
            /\ overwrote' = FALSE
            /\ UNCHANGED <<pageToasts, toastVars>>
       ELSE /\ showToastCall(FailedToLoad, "warning")
            /\ pageToasts' = pageToasts + 1
            /\ UNCHANGED gridVars
    /\ UNCHANGED <<fetchError, checkedFor, formVars, themeVars, hookVars>>
fetchResolvesMountsGrid(cs) ==
    /\ fetch = "pending"
    /\ fetch' = "resolved"
    /\ pageCards' = cs
    /\ loading' = FALSE
    /\ cards' = cs
    /\ activeCardId' = NoCard
    /\ effectDue' = TRUE
    /\ lastClicked' = NoCard
    /\ reclicked' = FALSE
    /\ overwrote' = FALSE
    /\ UNCHANGED <<pageToasts, fetchError, checkedFor, toastVars, formVars, themeVars, hookVars>>
fetchResolves(cs) ==
    /\ fetch = "pending"
    /\ fetch' = "resolved"
    /\ pageCards' = cs
    /\ loading' = FALSE
    /\ IF Len(cs) > 0
       THEN /\ cards' = cs
            /\ activeCardId' = NoCard
            /\ effectDue' = TRUE
            /\ lastClicked' = NoCard
            /\ reclicked' = FALSE
            /\ overwrote' = FALSE
       ELSE UNCHANGED gridVars
    /\ UNCHANGED <<pageToasts, fetchError, checkedFor, toastVars, formVars, themeVars, hookVars>>

\* The message of the catch block's toast: the same for every error
rejectMessageOfError(error) == error
rejectMessage(error) == FailedToLoad

\* The catch block and finally: showToast(..., 'error'); setCards([]);
\* setLoading(false)
fetchRejectsKeepsLoading(error) ==
    /\ fetch = "pending"
    /\ fetch' = "rejected"
    /\ showToastCall(rejectMessage(error), "error")
    /\ pageCards' = <<>>
    /\ pageToasts' = pageToasts + 1
    /\ fetchError' = error
    /\ UNCHANGED <<loading, checkedFor, gridVars, formVars, themeVars, hookVars>>
fetchRejects(error) ==
    /\ fetch = "pending"
    /\ fetch' = "rejected"
    /\ showToastCall(rejectMessage(error), "error")
    /\ pageCards' = <<>>
    /\ loading' = FALSE
    /\ pageToasts' = pageToasts + 1
    /\ fetchError' = error
    /\ UNCHANGED <<checkedFor, gridVars, formVars, themeVars, hookVars>>

\* const showToast = useCallback(..., []): every provider render gives the
\* same function, so the dependency [showToast] of HomePage's effect is the
\* same in every render of HomePage.
showToastPerRender == TRUE
showToastChanged == FALSE

\* A provider render gives the context a new value ({ showToast }), so
\* HomePage, which calls useToast(), renders again with it. After that render
\* React runs HomePage's effect again if a dependency changed.
rerender ==
    /\ fetch \in {"pending", "resolved", "rejected"}
    /\ checkedFor # toast
    /\ checkedFor' = toast
    /\ fetch' = IF showToastChanged THEN FetchDue ELSE fetch
    /\ UNCHANGED <<pageCards, loading, pageToasts, fetchError,
                   gridVars, toastVars, formVars, themeVars, hookVars>>

----------------------------------------------------------------------------
(* ContactPage *)

\* What the fields hold: nothing, something that fails a rule of register()
\* (a required field left empty, a pattern not matched), or valid data
FieldStates == {"empty", "invalid", "valid"}

\* handleSubmit's validation of the fields
isValid(f) == f = "valid"

Received == "Message received! We'll get back to you soon."
PleaseFill == "Please fill in all required fields correctly."

\* The user types into the form.
editFields(f) ==
    /\ fields # f
    /\ fields' = f
    /\ UNCHANGED <<processing, submissions, formToasts, resets,
                   gridVars, toastVars, pageVars, themeVars, hookVars>>

\* onSubmit={handleSubmit(onSubmit, onError)}: valid fields start onSubmit,
\* which waits in its 500 ms delay; otherwise onError runs:
\* showToast('Please fill in all required fields correctly.', 'warning')
submit ==
    /\ submissions < MaxSubmits
    /\ submissions' = submissions + 1
    /\ IF isValid(fields)
       THEN /\ processing' = processing + 1
            /\ UNCHANGED <<formToasts, toastVars>>
       ELSE /\ showToastCall(PleaseFill, "warning")
            /\ formToasts' = formToasts + 1
            /\ UNCHANGED processing
    /\ UNCHANGED <<fields, resets, gridVars, pageVars, themeVars, hookVars>>

\* reset(): the fields go back to their (empty) default values
resetKeeps(f) == f
resetResult(f) == "empty"

\* onSubmit after its delay: showToast('Message received! ...', 'success');
\* reset()
submitCompletes ==
    /\ processing > 0
    /\ processing' = processing - 1
    /\ showToastCall(Received, "success")
    /\ formToasts' = formToasts + 1
    /\ fields' = resetResult(fields)
    /\ resets' = resets + 1
    /\ UNCHANGED <<submissions, gridVars, pageVars, themeVars, hookVars>>

----------------------------------------------------------------------------
(* ThemeToggle *)

NoPref == "null"            \* localStorage.getItem('theme') = null
NoClick == <<>>             \* the button was not clicked since the page was loaded
NoToggle == "none"          \* the button was never clicked

StoredValues == {NoPref, "dark", "light"}

\* The theme as a record, for the history variable
theme == [isDark |-> isDark, darkClass |-> darkClass, stored |-> stored]

\* The condition of the mount effect: localStorage.getItem('theme') === 'dark'
\* || (!localStorage.getItem('theme') && matchMedia(...).matches)
systemWins(s, sys) == s = "dark" \/ sys
startsDark(s, sys) == s = "dark" \/ (s = NoPref /\ sys)

\* useEffect(() => {...}, []): if the condition holds, setIsDark(true) and
\* classList.add('dark')
themeInit ==
    /\ themeEffectDue
    /\ themeEffectDue' = FALSE
    /\ isDark' = IF startsDark(stored, systemDark) THEN TRUE ELSE isDark
    /\ darkClass' = IF startsDark(stored, systemDark) THEN TRUE ELSE darkClass
    /\ UNCHANGED <<stored, systemDark, before, toggledTo, gridVars, toastVars, pageVars, formVars, hookVars>>

\* localStorage.setItem('theme', isDark ? 'light' : 'dark')
storedKeepsTheme(dark) == IF dark THEN "dark" ELSE "light"
storedByToggle(dark) == IF dark THEN "light" ELSE "dark"

\* toggleTheme, the button's onClick: setIsDark(!isDark);
\* classList.toggle('dark'); localStorage.setItem(...)
toggleTheme ==
    /\ Len(before) < MaxClicks
    /\ isDark' = ~isDark
    /\ darkClass' = ~darkClass
    /\ stored' = storedByToggle(isDark)
    /\ before' = Append(before, theme)
    /\ toggledTo' = IF isDark THEN "light" ELSE "dark"
    /\ UNCHANGED <<systemDark, themeEffectDue, gridVars, toastVars, pageVars, formVars, hookVars>>

\* The user changes the system's colour scheme.
systemPrefers(dark) ==
    /\ systemDark # dark
    /\ systemDark' = dark
    /\ UNCHANGED <<isDark, darkClass, stored, themeEffectDue, before, toggledTo,
                   gridVars, toastVars, pageVars, formVars, hookVars>>

\* The page is loaded again: a new document (<html lang="en">, no class), a
\* new ThemeToggle, the same localStorage.
reload ==
    /\ isDark' = FALSE
    /\ darkClass' = FALSE
    /\ themeEffectDue' = TRUE
    /\ before' = NoClick
    /\ UNCHANGED <<stored, systemDark, toggledTo, gridVars, toastVars, pageVars, formVars, hookVars>>

----------------------------------------------------------------------------
(* useToast *)

NoContext == "undefined"    \* useContext(ToastContext) with no provider above: the default
Context == "showToast"      \* the provider's value, { showToast }

MustBeWithin == "useToast must be used within a ToastProvider"

\* useToast(): if (context === undefined) throw new Error(...); return context
useToastUnchecked(context) == [threw |-> FALSE, value |-> context]
useToast(context) ==
    IF context = NoContext
    THEN [threw |-> TRUE, value |-> MustBeWithin]
    ELSE [threw |-> FALSE, value |-> context]

\* A component that calls useToast() is rendered, inside a ToastProvider or
\* not: it gets the context, or its render fails with the error thrown.
renderConsumer(inside) ==
    /\ consumer = "none"
    /\ LET r == useToast(IF inside THEN Context ELSE NoContext)
       IN /\ consumer' = IF r.threw THEN "failed" ELSE r.value
          /\ thrown' = IF r.threw THEN r.value ELSE ""
    /\ UNCHANGED <<gridVars, toastVars, pageVars, formVars, themeVars>>

\* The rendered component calls the showToast of its context.
consumerShows(message, type) ==
    /\ consumer = Context
    /\ showToastCall(message, type)
    /\ UNCHANGED <<gridVars, pageVars, formVars, themeVars, hookVars>>

----------------------------------------------------------------------------
(* Specifications *)

\* The page's serviceCards
serviceCards == <<1, 2, 3>>

InitToastVars ==
    /\ toast = NoToast
    /\ timer = NoTimer
    /\ toastEffectDue = FALSE
    /\ lastShown = NoToast
    /\ lastArgs = NoToast
    /\ replaced = NoToast
    /\ sinceShown = NoCall
    /\ closedSince = FALSE
    /\ closedBefore = FALSE

\* No HomePage that fetches, an untouched contact form, no ThemeToggle and
\* no consumer of useToast()
NoHomePage ==
    /\ fetch = NoFetch
    /\ pageCards = <<>>
    /\ loading = FALSE
    /\ pageToasts = 0
    /\ fetchError = NoError
    /\ checkedFor = NoToast

InitContactForm ==
    /\ fields = "empty"
    /\ processing = 0
    /\ submissions = 0
    /\ formToasts = 0
    /\ resets = 0

NoThemeToggle ==
    /\ isDark = FALSE
    /\ darkClass = FALSE
    /\ stored = NoPref
    /\ systemDark = FALSE
    /\ themeEffectDue = FALSE
    /\ before = NoClick
    /\ toggledTo = NoToggle

NoConsumer ==
    /\ consumer = "none"
    /\ thrown = ""

\* CardGrid mounted with any card list; the provider mounted with no toast.
Init ==
    /\ cards \in CardLists
    /\ activeCardId = NoCard
    /\ effectDue = TRUE
    /\ lastClicked = NoCard
    /\ reclicked = FALSE
    /\ overwrote = FALSE
    /\ InitToastVars
    /\ NoHomePage /\ InitContactForm /\ NoThemeToggle /\ NoConsumer

\* The page as written: CardGrid mounted with serviceCards.
InitPage ==
    /\ cards = serviceCards
    /\ activeCardId = NoCard
    /\ effectDue = TRUE
    /\ lastClicked = NoCard
    /\ reclicked = FALSE
    /\ overwrote = FALSE
    /\ InitToastVars
    /\ NoHomePage /\ InitContactForm /\ NoThemeToggle /\ NoConsumer

\* The HomePage that fetches, just mounted: <Loading /> is shown and no
\* CardGrid is mounted.
NoCardGrid ==
    /\ cards = <<>>
    /\ activeCardId = NoCard
    /\ effectDue = FALSE
    /\ lastClicked = NoCard
    /\ reclicked = FALSE
    /\ overwrote = FALSE

InitHomePage ==
    /\ NoCardGrid
    /\ InitToastVars
    /\ fetch = FetchDue
    /\ pageCards = <<>>
    /\ loading = TRUE
    /\ pageToasts = 0
    /\ fetchError = NoError
    /\ checkedFor = NoToast
    /\ InitContactForm /\ NoThemeToggle /\ NoConsumer

\* The contact page, just mounted: no card grid on it.
InitContactPage ==
    /\ NoCardGrid
    /\ InitToastVars
    /\ NoHomePage /\ InitContactForm /\ NoThemeToggle /\ NoConsumer

\* ThemeToggle just mounted on a new document, with any stored preference
\* and any system preference.
InitTheme ==
    /\ NoCardGrid
    /\ InitToastVars
    /\ NoHomePage /\ InitContactForm /\ NoConsumer
    /\ isDark = FALSE
    /\ darkClass = FALSE
    /\ stored \in StoredValues
    /\ systemDark \in BOOLEAN
    /\ themeEffectDue = TRUE
    /\ before = NoClick
    /\ toggledTo = NoToggle

\* A provider with no toast, and a component that calls useToast() about to
\* be rendered.
InitConsumer ==
    /\ NoCardGrid
    /\ InitToastVars
    /\ NoHomePage /\ InitContactForm /\ NoThemeToggle /\ NoConsumer

NextGrid ==
    \/ initialize
    \/ \E cardId \in CardIds : handleButtonClick(cardId)
    \/ \E cs \in CardLists : deliver(cs)

\* CardGrid mounted with one list object that its parent never replaces
NextMount ==
    \/ initialize
    \/ \E cardId \in CardIds : handleButtonClick(cardId)

\* CardGrid with handleButtonClick as a function callable with any number
NextSelect ==
    \/ initialize
    \/ \E cardId \in AnyIds : select(cardId)
    \/ \E cs \in CardLists : deliver(cs)

NextToast ==
    \/ \E message \in Messages, type \in TypeArgs : showToast(message, type)
    \/ flushToastEffect
    \/ timerFires
    \/ dismiss
    \/ tick

Next == NextGrid \/ NextToast

\* The page as written, under the layout's provider: the CardGrid keeps the
\* list it was mounted with (serviceCards is a constant of the module).
NextSite ==
    \/ initialize
    \/ \E cardId \in CardIds : handleButtonClick(cardId)
    \/ NextToast

\* HomePage with the provider of the layout around it: nothing else on the
\* page calls showToast.
NextHomePage ==
    \/ startFetch
    \/ \E cs \in CardLists : fetchResolves(cs)
    \/ \E error \in Errors : fetchRejects(error)
    \/ rerender
    \/ initialize
    \/ \E cardId \in CardIds : handleButtonClick(cardId)
    \/ flushToastEffect
    \/ timerFires
    \/ dismiss
    \/ tick

SpecGrid == Init /\ [][NextGrid]_vars
SpecMount == Init /\ [][NextMount]_vars
SpecSelect == Init /\ [][NextSelect]_vars
SpecToast == InitPage /\ [][NextToast]_vars
Spec == InitPage /\ [][Next]_vars
\* ContactPage with the provider of the layout around it
NextContactPage ==
    \/ \E f \in FieldStates : editFields(f)
    \/ submit
    \/ submitCompletes
    \/ flushToastEffect
    \/ timerFires
    \/ dismiss
    \/ tick

NextTheme ==
    \/ themeInit
    \/ toggleTheme
    \/ \E dark \in BOOLEAN : systemPrefers(dark)
    \/ reload

NextConsumer ==
    \/ \E inside \in BOOLEAN : renderConsumer(inside)
    \/ \E message \in Messages, type \in TypeArgs : consumerShows(message, type)
    \/ flushToastEffect
    \/ timerFires
    \/ dismiss
    \/ tick

\* The provider with a fair scheduler: React runs pending effect work, a due
\* timer's callback runs, and time passes.
SpecToastLive ==
    /\ InitPage
    /\ [][NextToast]_vars
    /\ WF_vars(flushToastEffect)
    /\ WF_vars(timerFires)
    /\ WF_vars(tick)
SpecSite == InitPage /\ [][NextSite]_vars
SpecHomePage == InitHomePage /\ [][NextHomePage]_vars
\* HomePage with a fair scheduler: React runs the mount effect, and the
\* promise of getCards() settles (after its 1000 ms delay).
SpecHomePageLive ==
    /\ InitHomePage
    /\ [][NextHomePage]_vars
    /\ WF_vars(startFetch)
    /\ WF_vars(\/ \E cs \in CardLists : fetchResolves(cs)
               \/ \E error \in Errors : fetchRejects(error))
SpecContactPage == InitContactPage /\ [][NextContactPage]_vars
SpecTheme == InitTheme /\ [][NextTheme]_vars
SpecConsumer == InitConsumer /\ [][NextConsumer]_vars

----------------------------------------------------------------------------
(* Claims about CardGrid, checked under SpecGrid *)

\* C1: when the effect runs on a non-empty list of n cards, exactly one card
\* of the list is highlighted afterwards, and it is the card at the
\* zero-based index floor((n-1)/2): the lower of the two central cards when
\* n is even.
C1_MiddleAfterInitialize ==
    [][(initialize /\ Len(cards) > 0)
        => Highlighted' = {((Len(cards) - 1) \div 2) + 1}]_vars

\* The effect has run on a list of four cards and the second card (index 1)
\* is the highlighted one.
C1_Witness ==
    /\ Len(cards) = 4
    /\ ~effectDue
    /\ lastClicked = NoCard
    /\ Highlighted = {2}

\* C2 as stated: once the effect has run on an empty list, no id at all is
\* the selected one.
C2_NoneSelectedAfterEmpty ==
    [][(initialize /\ Len(cards) = 0) => SelectedIds' = {}]_vars

\* C2 amended: when the effect runs on an empty list it makes no selection:
\* activeCardId keeps the value it had (null only if it was null) and no card
\* is highlighted.
C2_EmptyKeepsSelection ==
    [][(initialize /\ Len(cards) = 0)
        => (activeCardId' = activeCardId /\ Highlighted' = {})]_vars

\* The effect has run on an empty list and an id selected earlier is still
\* the active one.
C2_Witness ==
    /\ Len(cards) = 0
    /\ ~effectDue
    /\ activeCardId # NoCard

\* C3: at most one id is selected in any state, and a click on the button of
\* card x leaves x selected and every other id, the one selected before
\* included, not selected.
C3_ExclusiveSelection ==
    /\ [](Cardinality(SelectedIds) <= 1)
    /\ [][\A x \in CardIds : handleButtonClick(x) => SelectedIds' = {x}]_vars

\* A click has moved the selection away from the default middle card.
C3_Witness ==
    /\ ~effectDue
    /\ Len(cards) > 1
    /\ lastClicked # NoCard
    /\ lastClicked # cards[((Len(cards) - 1) \div 2) + 1]
    /\ SelectedIds = {lastClicked}

C5_SelectIdempotent ==
    [][\A x \in CardIds :
        (lastClicked = x /\ handleButtonClick(x)) => activeCardId' = activeCardId]_vars

\* The same button was clicked twice in a row.
C5_Witness ==
    /\ reclicked
    /\ lastClicked # NoCard
    /\ activeCardId = lastClicked

\* C6: when the effect runs on a non-empty list after a click, the selection
\* becomes the id at index floor((n-1)/2) of that list, whatever was clicked.
C6_ReinitializeOverwrites ==
    [][(lastClicked # NoCard /\ initialize /\ Len(cards) > 0)
        => activeCardId' = cards[((Len(cards) - 1) \div 2) + 1]]_vars

\* The effect has run again and replaced a selection made by a click.
C6_Witness ==
    /\ overwrote
    /\ ~effectDue
    /\ lastClicked = NoCard
    /\ Len(cards) > 0
    /\ activeCardId = cards[((Len(cards) - 1) \div 2) + 1]

\* C7: activeCardId starts as null and, once it holds an id, is never null
\* again.
C7_NeverClearedAgain ==
    /\ activeCardId = NoCard
    /\ [][activeCardId # NoCard => activeCardId' # NoCard]_vars

\* The grid holds an id and has since been given an empty list.
C7_Witness ==
    /\ activeCardId # NoCard
    /\ Len(cards) = 0
    /\ ~effectDue

----------------------------------------------------------------------------
(* Claims about ToastProvider and Toast, checked under SpecToast *)

\* C8: a showToast call makes its own toast the current one, whether or not
\* another toast was current (the last call wins, nothing is queued), and
\* the current toast never changes to another toast except by a showToast
\* call, so that a replaced toast is not shown again.
C8_LastShowWins ==
    [][/\ \A m \in Messages, t \in ToastTypes :
            showToast(m, t) => current' = [message |-> m, type |-> t]
       /\ (current' # current /\ current' # NoToast)
            => \E m \in Messages, t \in TypeArgs : showToast(m, t)]_vars

\* Toast B is current and replaced toast A, which was current when B was
\* shown.
C8_Witness ==
    /\ replaced # NoToast
    /\ replaced.message = "A"
    /\ lastShown.message = "B"
    /\ current = lastShown

\* C9: a toast stops being current only by a click on its close button or
\* when 3000 ms have passed since the showToast call that made it current:
\* the timer of a toast it replaced never clears it.
C9_StaleTimerNeverClears ==
    [][(current # NoToast /\ current' = NoToast)
        => (dismiss \/ sinceShown >= Duration)]_vars

\* C10: with no click on the close button and no other showToast call since,
\* the toast of a showToast call is current at every instant before 3000 ms
\* have passed since the call, and no toast is current at any instant after.
C10_CurrentUntilExpiry ==
    (sinceShown # NoCall /\ ~closedSince)
        => /\ sinceShown < Duration => current = lastShown
           /\ sinceShown > Duration => current = NoToast

\* C11: a showToast call made while a toast is current restarts the expiry
\* timer: with no click on the close button since, the replacing toast (equal
\* or not to the one it replaced) is current until 3000 ms have passed since
\* the replacing call, and once the effect work has run its timer has
\* exactly the rest of those 3000 ms left.
C11_ReplacingToastFullDuration ==
    (replaced # NoToast /\ ~closedSince /\ sinceShown < Duration)
        => /\ current = lastShown
           /\ ~toastEffectDue => timer = Duration - sinceShown

\* C12: after a click on the close button, and until the next showToast
\* call, no toast is current, whatever time was left on the timer.
C12_DismissClearsAtOnce ==
    closedSince => current = NoToast

\* The close button was clicked before 3000 ms had passed since the toast
\* was shown, and no toast is current.
C12_Witness ==
    /\ closedSince
    /\ lastShown # NoToast
    /\ sinceShown < Duration
    /\ current = NoToast

C14_CarriesLastCall ==
    current # NoToast
        => /\ current.message = lastArgs.message
           /\ current.type = IF lastArgs.type = Omitted THEN "info" ELSE lastArgs.type
           /\ current.type \in ToastTypes

\* A toast shown without a type, over a toast of another type, is an info
\* toast.
C14_Witness ==
    /\ lastArgs.type = Omitted
    /\ replaced # NoToast
    /\ replaced.type = "error"
    /\ current.type = "info"
    /\ current.message = lastArgs.message

----------------------------------------------------------------------------
(* Claims about HomePage, checked under SpecHomePage *)

\* C15: once getCards() has rejected, with any error, HomePage has called
\* showToast exactly once, with the generic 'Failed to load content' message
\* and the type 'error' (the toast is current until it expires or is closed);
\* the card list is empty, loading is false, the fallback 'Services Currently
\* Unavailable' is shown and no CardGrid is mounted.
C15_RejectedFetch ==
    fetch = "rejected" =>
        /\ pageToasts = 1
        /\ lastArgs = [message |-> FailedToLoad, type |-> "error"]
        /\ (~closedSince /\ sinceShown < Duration) => current = lastArgs
        /\ pageCards = <<>>
        /\ ~loading
        /\ ~loadingShown
        /\ fallbackShown
        /\ ~gridMounted
        /\ cards = <<>>

\* The fetch rejected with a timeout: the generic toast and the fallback.
C15_Witness ==
    /\ fetch = "rejected"
    /\ fetchError = "Request timeout"
    /\ current = [message |-> FailedToLoad, type |-> "error"]
    /\ fallbackShown

\* C16: HomePage has called showToast only if getCards() rejected: while the
\* fetch is due or pending, and once it resolved (with any list, empty or
\* not), no toast was raised and none is current.
C16_ToastOnlyAfterReject ==
    /\ pageToasts > 0 => fetch = "rejected"
    /\ fetch \in {FetchDue, "pending", "resolved"} =>
            /\ pageToasts = 0
            /\ lastArgs = NoToast
            /\ current = NoToast

\* The fetch resolved with the empty list: the fallback, and no toast.
C16_Witness ==
    /\ fetch = "resolved"
    /\ pageCards = <<>>
    /\ fallbackShown
    /\ pageToasts = 0
    /\ current = NoToast

----------------------------------------------------------------------------
(* Claims about ContactPage, checked under SpecContactPage *)

\* C17: every submission of the contact form raises exactly one toast. If the
\* validation fails, onError raises the warning at once, no success toast is
\* raised and the form is not reset. If the fields are valid, nothing is raised
\* at the submit; after the delay, onSubmit raises the success toast and
\* resets the form.
C17_OneToastPerSubmission ==
    /\ [](formToasts + processing = submissions)
    /\ [][/\ (submit /\ ~isValid(fields)) =>
                /\ formToasts' = formToasts + 1
                /\ lastArgs' = [message |-> PleaseFill, type |-> "warning"]
                /\ current' = lastArgs'
                /\ processing' = processing
                /\ fields' = fields
                /\ resets' = resets
          /\ (submit /\ isValid(fields)) =>
                /\ formToasts' = formToasts
                /\ UNCHANGED toastVars
                /\ processing' = processing + 1
                /\ fields' = fields
                /\ resets' = resets
          /\ submitCompletes =>
                /\ formToasts' = formToasts + 1
                /\ lastArgs' = [message |-> Received, type |-> "success"]
                /\ current' = lastArgs'
                /\ fields' = "empty"
                /\ resets' = resets + 1
          /\ formToasts' # formToasts => (submit \/ submitCompletes)]_vars

\* An invalid submission, then a valid one: the success toast replaced the
\* warning, and the form is empty again.
C17_Witness ==
    /\ submissions = 2
    /\ formToasts = 2
    /\ resets = 1
    /\ processing = 0
    /\ replaced.type = "warning"
    /\ current = [message |-> Received, type |-> "success"]
    /\ fields = "empty"

----------------------------------------------------------------------------
(* Claims about ThemeToggle, checked under SpecTheme *)

\* C18: once the mount effect has run, and after any number of clicks, isDark
\* and the 'dark' class of the document root agree, and after at least one
\* click localStorage's 'theme' agrees with them. Every click flips isDark and
\* the class and stores the new theme; the second of two clicks restores
\* the theme from before the first (and the stored value, if a click wrote it).
C18_ThemeAgrees ==
    /\ [](~themeEffectDue =>
            /\ isDark = darkClass
            /\ before # NoClick => stored = (IF isDark THEN "dark" ELSE "light"))
    /\ [][toggleTheme =>
            /\ isDark' = ~isDark
            /\ darkClass' = ~darkClass
            /\ stored' = (IF isDark' THEN "dark" ELSE "light")
            /\ (~themeEffectDue /\ before # NoClick) => stored' # stored
            /\ Len(before) >= 1 =>
                    /\ isDark' = before[Len(before)].isDark
                    /\ darkClass' = before[Len(before)].darkClass
            /\ Len(before) >= 2 => stored' = before[Len(before)].stored]_vars

\* Dark by the system's preference, then two clicks: dark again, now stored.
C18_Witness ==
    /\ ~themeEffectDue
    /\ Len(before) = 2
    /\ before[1] = [isDark |-> TRUE, darkClass |-> TRUE, stored |-> NoPref]
    /\ isDark /\ darkClass /\ stored = "dark"

\* C19: the mount effect, run before any click, leaves the theme dark (isDark
\* and the 'dark' class) exactly if 'dark' is stored, or nothing is stored and
\* the system prefers dark: a stored 'light' wins over a dark system
\* preference, and nothing stored with a light system gives the light theme.
C19_StartsDark ==
    [][(themeInit /\ before = NoClick) =>
            /\ isDark' = (stored = "dark" \/ (stored = NoPref /\ systemDark))
            /\ darkClass' = isDark'
            /\ (stored = "light" /\ systemDark) => ~isDark'
            /\ (stored = NoPref /\ ~systemDark) => ~isDark']_vars

\* 'light' is stored and the system prefers dark: the theme is light.
C19_Witness ==
    /\ ~themeEffectDue
    /\ before = NoClick
    /\ stored = "light"
    /\ systemDark
    /\ ~isDark /\ ~darkClass

----------------------------------------------------------------------------
(* Claims about useToast, checked under SpecConsumer *)

\* C20: a component rendered outside every ToastProvider fails in useToast()
\* with the error 'useToast must be used within a ToastProvider'; it raises no
\* toast, then or later.
C20_OutsideProviderThrows ==
    /\ [](consumer = "failed" =>
            /\ thrown = "useToast must be used within a ToastProvider"
            /\ lastArgs = NoToast
            /\ current = NoToast)
    /\ [][renderConsumer(FALSE) =>
            /\ consumer' = "failed"
            /\ thrown' = "useToast must be used within a ToastProvider"
            /\ UNCHANGED toastVars]_vars

\* The render outside a provider failed, and time went on with no toast.
C20_Witness ==
    /\ consumer = "failed"
    /\ thrown = MustBeWithin
    /\ current = NoToast
    /\ timer = NoTimer

----------------------------------------------------------------------------
(* More claims about the provider and its Toast, checked under SpecToast *)

\* C21: the close button cancels the pending timer. A toast shown after the
\* one before it was closed is current, with no timer of the closed toast
\* left to fire against it, for the full 3000 ms from its showToast call,
\* unless it is closed or replaced itself.
C21_ClosedTimerNeverFires ==
    (closedBefore /\ ~closedSince /\ sinceShown < Duration)
        => /\ current = lastShown
           /\ toastEffectDue => timer = NoTimer
           /\ ~toastEffectDue => timer = Duration - sinceShown

\* A toast shown after a click on the close button, still current with
\* less than half of its time left.
C21_Witness ==
    /\ closedBefore
    /\ ~closedSince
    /\ replaced = NoToast
    /\ current # NoToast
    /\ current = lastShown
    /\ ~toastEffectDue
    /\ sinceShown > TickMs
    /\ timer = Duration - sinceShown

\* C22 (under SpecToastLive): if the showToast calls stop, then from some
\* point on no toast is current; put the other way round, either showToast is
\* called again and again for ever, or the provider ends up with no toast and
\* stays so.
C22_EventuallyIdle ==
    \/ []<><<\E message \in Messages, type \in TypeArgs : showToast(message, type)>>_vars
    \/ <>[](current = NoToast)

\* A toast that nobody closed or replaced is gone once its 3000 ms are over.
C22_Witness ==
    /\ lastShown # NoToast
    /\ ~closedSince
    /\ sinceShown >= Duration
    /\ current = NoToast
    /\ timer = NoTimer

----------------------------------------------------------------------------
(* More claims about HomePage, checked under SpecHomePage *)

\* C23: HomePage fetches once per mount and never again. The fetch only goes
\* from due to pending and from pending to resolved or rejected, where it
\* stays; HomePage raises at most one toast; and the renders that follow the
\* error toast, its expiry or its dismissal start no fetch and raise nothing.
C23_OneFetchNoRetry ==
    /\ [](pageToasts <= 1)
    /\ [][fetch' # fetch =>
            \/ fetch = FetchDue /\ fetch' = "pending"
            \/ fetch = "pending" /\ fetch' \in {"resolved", "rejected"}]_vars
    /\ [][(rerender \/ flushToastEffect \/ timerFires \/ dismiss) =>
            UNCHANGED <<fetch, pageCards, loading, pageToasts>>]_vars

\* The fetch was rejected, and HomePage has rendered again with the error
\* toast of the provider.
C23_Witness ==
    /\ fetch = "rejected"
    /\ pageToasts = 1
    /\ current # NoToast
    /\ checkedFor = current

\* C24 (under SpecHomePageLive): HomePage starts with loading true; loading
\* is false once the fetch has resolved or was rejected, and once false it
\* stays false; while loading is true <Loading /> is shown, and neither the
\* grid nor the fallback; and loading does end.
C24_LoadingEnds ==
    /\ (fetch = FetchDue /\ loading = TRUE)
    /\ [](fetch \in {"resolved", "rejected"} => ~loading)
    /\ [][~loading => ~loading']_vars
    /\ [](loading => (loadingShown /\ ~gridMounted /\ ~fallbackShown /\ cards = <<>>))
    /\ <>[](~loading)

\* Loading has ended with cards: the grid is mounted and has its default.
C24_Witness ==
    /\ fetch = "resolved"
    /\ ~loading
    /\ gridMounted
    /\ ~effectDue
    /\ activeCardId = middleCardId(pageCards)

\* C25 (under SpecHomePage): once loading is false, the CardGrid is mounted
\* (with the page's list) exactly if the list is not empty, and the fallback
\* is shown exactly if it is empty; so the grid's effect never runs on an empty
\* list, and a fetch that resolved with the empty list shows the fallback and
\* raises no toast.
C25_GridOrFallback ==
    /\ []((fetch # NoFetch /\ ~loading) =>
            /\ gridMounted <=> Len(pageCards) > 0
            /\ fallbackShown <=> Len(pageCards) = 0
            /\ gridMounted => cards = pageCards
            /\ ~gridMounted => (cards = <<>> /\ ~effectDue /\ activeCardId = NoCard))
    /\ [][initialize => Len(cards) > 0]_vars
    /\ []((fetch = "resolved" /\ pageCards = <<>>) =>
            (fallbackShown /\ pageToasts = 0 /\ current = NoToast))

\* The fetch resolved with the empty list, and time went by: the fallback,
\* no grid, no selection, no toast.
C25_Witness ==
    /\ fetch = "resolved"
    /\ ~loading
    /\ pageCards = <<>>
    /\ fallbackShown
    /\ ~gridMounted
    /\ cards = <<>>
    /\ activeCardId = NoCard
    /\ sinceShown = NoCall

----------------------------------------------------------------------------
(* More claims about CardGrid *)

\* C26 (under SpecSelect): select(cardId) can always be called, with any
\* number; it makes that number the selected id and leaves the list as it
\* is; if no card of the list has the id, no card is highlighted afterwards.
C26_SelectUnvalidated ==
    /\ [](\A cardId \in AnyIds : ENABLED select(cardId))
    /\ [][\A cardId \in AnyIds : select(cardId) =>
            /\ activeCardId' = cardId
            /\ cards' = cards
            /\ (\A i \in 1..Len(cards) : cards[i] # cardId)
                    => \A i \in 1..Len(cards) : cards'[i] # activeCardId']_vars

\* An id of no card was selected on a list with cards: nothing is highlighted.
C26_Witness ==
    /\ ~effectDue
    /\ Len(cards) > 0
    /\ lastClicked = MaxCards + 1
    /\ activeCardId = MaxCards + 1
    /\ Highlighted = {}

\* C27 (under SpecSite): the grid and the provider are independent. The
\* grid's effect and a click on a card button leave the toast, its timer and
\* its pending effect work as they are; showToast, the close button, the
\* timer's callback, the Toast's effect and the clock leave the grid's list,
\* its selection and its pending effect as they are; isHighlighted and
\* current only read the state.
C27_Independent ==
    /\ [][(initialize \/ \E cardId \in CardIds : handleButtonClick(cardId)) =>
            UNCHANGED <<toast, timer, toastEffectDue>>]_vars
    /\ [][NextToast => UNCHANGED <<cards, activeCardId, effectDue>>]_vars
    /\ [](/\ current = toast
          /\ \A cardId \in CardIds : isHighlighted(cardId) <=> cardId = activeCardId)

\* The third card was chosen and is still highlighted while a toast that
\* replaced another one is running.
C27_Witness ==
    /\ ~effectDue
    /\ lastClicked = 3
    /\ activeCardId = 3
    /\ current # NoToast
    /\ replaced # NoToast
    /\ timer > 0
    /\ timer < Duration

\* C28 (under SpecMount, where every click is made on the one list the grid
\* was mounted with): the effect that sets the default never undoes a
\* selection made by a click on that list.
C28_SelectNotUndone ==
    [][(initialize /\ lastClicked # NoCard) => activeCardId' = lastClicked]_vars

----------------------------------------------------------------------------
(* One more claim about ThemeToggle, checked under SpecTheme *)

\* C29: the stored theme survives a page load. Once the button has been
\* clicked, the mount effect of a later page load (a new document, a new
\* ThemeToggle) leaves isDark and the 'dark' class as the last click left
\* them, whatever the system prefers.
C29_ThemeRoundTrip ==
    [][(themeInit /\ toggledTo # NoToggle) =>
            /\ isDark' = (toggledTo = "dark")
            /\ darkClass' = (toggledTo = "dark")
            /\ stored' = toggledTo]_vars

\* The last click chose the light theme; the page was loaded again with a
\* system that prefers dark: the theme is light.
C29_Witness ==
    /\ ~themeEffectDue
    /\ before = NoClick
    /\ toggledTo = "light"
    /\ systemDark
    /\ ~isDark /\ ~darkClass

====
